---- MODULE Spec2Model ----
(***************************************************************************)
(* Witness-table loading of the EVM circuit (zkevm-circuits/src/           *)
(* evm_circuit.rs), the row-count helpers of EvmCircuit, and the absorb    *)
(* step of the Keccak permutation (keccak256/src/permutation/absorb.rs).   *)
(*                                                                         *)
(* A table region is modelled by the log of the cell assignments made in   *)
(* it: a sequence of [col, off, val] records in the order in which         *)
(* region.assign_advice / assign_fixed were called.  Field elements are    *)
(* integers modulo FieldModulus.                                           *)
(***************************************************************************)
EXTENDS Integers, Sequences, FiniteSets, TLC

VARIABLES
    entry,      \* the public function the caller invoked
    block,      \* witness::Block of the circuit (read-only input)
    fixed_table_tags, \* TestCircuit.fixed_table_tags
    inputs,     \* keccak inputs handed to load_keccaks
    witness,    \* the backend evaluates the value closures (proving, not keygen)
    pc,         \* the loading step the run is in
    result,     \* "running", "Ok", "Err" (the backend's error), "Synthesis"
                \* (Error::Synthesis of a value closure) or "panic"
    started,    \* the current loader has emitted its all-zero row
    offset,     \* the current loader's `offset`
    rows,       \* the rows (rw: the records) the current loader still emits
    expected_rw_counter, \* load_rws' expected_rw_counter
    regions,    \* the layouter's regions, in the order assign_region made them
    cells,      \* table -> log of cell assignments
    loaded,     \* the loaders that returned Ok, in order
    num_rows,   \* get_num_rows_required's accumulator / result
    active,     \* get_active_rows' result
    state,      \* apply_absorb: the 25-lane previous state
    next_input, \* apply_absorb: the next-input lanes (None or a field value)
    next_input_b9, \* apply_absorb: the assigned next-input cells
    out_state   \* apply_absorb: the lanes pushed so far / returned

vars == <<entry, block, fixed_table_tags, inputs, witness, pc, result, started, offset,
          rows, expected_rw_counter, regions, cells, loaded, num_rows, active,
          state, next_input, next_input_b9, out_state>>

loader_vars == <<started, offset, rows, expected_rw_counter>>
absorb_vars == <<state, next_input, next_input_b9, out_state>>
rowcount_vars == <<num_rows, active>>
input_vars == <<entry, block, fixed_table_tags, inputs, witness>>

----------------------------------------------------------------------------
(* Bounds of the model *)

\* the field is Z/FieldModulus
FieldModulus == 257
\* most transactions in a block handed to load_txs
MaxTxs == 2
\* most rw records in an RwMap handed to load_rws; counters range over 0..MaxRws
MaxRws == 3
\* most bytecodes handed to load_bytecodes
MaxBytecodes == 2
\* most inputs handed to load_keccaks
MaxKeccakInputs == 2
\* most execution steps of one transaction
MaxSteps == 2
\* the bits of a lane word (64 in the program)
WordBits == 2

----------------------------------------------------------------------------
(* Program constants *)

TxColumns == 4
RwColumns == 10
BytecodeColumns == 4
BlockColumns == 3
KeccakColumns == 4
FixedColumns == 4
ByteTableRows == 256
DigestBytes == 32
Lanes == 25

Tables == {"fixed", "byte", "tx", "rw", "bytecode", "block", "keccak"}
WitnessTables == {"tx", "rw", "bytecode", "block", "keccak"}

Columns(t) ==
    CASE t = "fixed" -> FixedColumns
      [] t = "byte" -> 1
      [] t = "tx" -> TxColumns
      [] t = "rw" -> RwColumns
      [] t = "bytecode" -> BytecodeColumns
      [] t = "block" -> BlockColumns
      [] t = "keccak" -> KeccakColumns

----------------------------------------------------------------------------
(* Sequences and field arithmetic *)

RECURSIVE Flatten(_)
Flatten(ss) == IF ss = <<>> THEN <<>> ELSE Head(ss) \o Flatten(Tail(ss))

\* mutant of Reverse: the sequence is walked front to back
Reverse_omitted(s) == s

\* Iterator::rev
Reverse(s) == [i \in 1..Len(s) |-> s[Len(s) + 1 - i]]

RECURSIVE SumSeq(_)
SumSeq(s) == IF s = <<>> THEN 0 ELSE Head(s) + SumSeq(Tail(s))

SeqsUpTo(S, n) == UNION {[1..k -> S] : k \in 0..n}

F_from(n) == n % FieldModulus
F_add(a, b) == (a + b) % FieldModulus
F_mul(a, b) == (a * b) % FieldModulus

\* F::pow, by squaring
RECURSIVE F_pow(_, _)
F_pow(a, n) ==
    IF n = 0 THEN 1 % FieldModulus
    ELSE LET h == F_pow(a, n \div 2)
         IN  IF n % 2 = 0 THEN F_mul(h, h) ELSE F_mul(F_mul(h, h), a % FieldModulus)

\* seq[lo] + seq[lo+1]*r + ... + seq[hi]*r^(hi-lo), summed by halves
RECURSIVE rlc_range(_, _, _, _)
rlc_range(seq, r, lo, hi) ==
    IF lo > hi THEN 0
    ELSE IF lo = hi THEN F_from(seq[lo])
    ELSE LET mid == (lo + hi) \div 2
         IN  F_add(rlc_range(seq, r, lo, mid),
                   F_mul(F_pow(r, mid - lo + 1), rlc_range(seq, r, mid + 1, hi)))

\* rlc::value / RandomLinearCombination::random_linear_combine:
\* seq[0] + seq[1]*r + seq[2]*r^2 + ...
rlc(seq, r) == rlc_range(seq, r, 1, Len(seq))

----------------------------------------------------------------------------
(* The records of a block and their table-row expansions *)

\* Transaction::table_assignments: [tx_id, tag, index, value] rows, the
\* call-data length and then one row per call-data byte
tx_table_assignments(tx, randomness) ==
    <<  <<F_from(tx.id), 8, 0, F_from(Len(tx.call_data))>>  >>
    \o [i \in 1..Len(tx.call_data) |->
            <<F_from(tx.id), 10, F_from(i - 1), F_from(tx.call_data[i])>>]

\* per byte: 1 for an opcode, 0 for the data of a preceding PUSH1..PUSH32
RECURSIVE is_code(_, _)
is_code(bytes, push_data_left) ==
    IF bytes = <<>> THEN <<>>
    ELSE IF push_data_left > 0
         THEN <<0>> \o is_code(Tail(bytes), push_data_left - 1)
         ELSE <<1>> \o is_code(Tail(bytes),
                               IF Head(bytes) \in 96..127
                               THEN Head(bytes) - 95 ELSE 0)

\* Bytecode::table_assignments: [hash, index, is_code, byte], one row per byte
bytecode_table_assignments(bytecode, randomness) ==
    [i \in 1..Len(bytecode.bytes) |->
        <<rlc(bytecode.hash, randomness), F_from(i - 1),
          is_code(bytecode.bytes, 0)[i], F_from(bytecode.bytes[i])>>]

\* BlockContext::table_assignments: [tag, index, value], one row per field
block_table_assignments(context, randomness) ==
    <<  <<1, 0, F_from(context.coinbase)>>,
        <<2, 0, F_from(context.timestamp)>>,
        <<3, 0, rlc(context.base_fee, randomness)>>  >>

\* Rw::table_assignment: the counter first, the write flag second, the value last
rw_table_assignment(rw, randomness) ==
    [i \in 1..RwColumns |->
        CASE i = 1 -> F_from(rw.rw_counter)
          [] i = 2 -> IF rw.is_write THEN 1 ELSE 0
          [] i = RwColumns -> F_from(rw.value)
          [] OTHER -> 0]

\* RwRow::default()
RwRow_default == [i \in 1..RwColumns |-> 0]

\* FixedTableTag::build: [tag, value, 0, 0] rows
fixed_tag_build(tag) ==
    CASE tag = "Zero" -> <<  <<0, 0, 0, 0>>  >>
      [] tag = "Range5" -> [v \in 1..5 |-> <<1, v - 1, 0, 0>>]

\* Keccak::digest: the 32-byte digest of the input (a stand-in for the hash:
\* a fixed function of the input whose bytes are not a palindrome)
keccak_digest(input) ==
    [i \in 1..DigestBytes |->
        (i * 7 + 31 * Len(input) + 3 * SumSeq(input)) % 256]

\* Word::from_big_endian: the word as its 32 base-256 digits, most
\* significant first (a shorter slice is left-padded with zeros)
Word_from_big_endian(slice) ==
    [i \in 1..DigestBytes |->
        IF i <= DigestBytes - Len(slice) THEN 0
        ELSE slice[i - (DigestBytes - Len(slice))]]

\* ToLittleEndian::to_le_bytes: the digits, least significant first
to_le_bytes(word) == Reverse(word)

\* mutant of keccak_table_assignments: the input is combined front to back
keccak_table_assignments_forward(input, randomness) ==
    <<  <<1, rlc(input, randomness), F_from(Len(input)),
          rlc(to_le_bytes(Word_from_big_endian(keccak_digest(input))), randomness)>>  >>

\* keccak_table_assignments: the one row of a keccak input
keccak_table_assignments(input, randomness) ==
    LET input_rlc == rlc(Reverse(input), randomness)
        input_len == F_from(Len(input))
        output == keccak_digest(input)
        output_rlc == rlc(to_le_bytes(Word_from_big_endian(output)), randomness)
    IN  <<  <<1, input_rlc, input_len, output_rlc>>  >>

----------------------------------------------------------------------------
(* The table loaders *)

\* mutant of synthesize_next: the rw table is loaded before the tx table
synthesize_next_swapped(step) ==
    CASE step = "load_fixed_table" -> "load_byte_table"
      [] step = "load_byte_table" -> "load_rws"
      [] step = "load_rws" -> "load_txs"
      [] step = "load_txs" -> "load_bytecodes"
      [] step = "load_bytecodes" -> "load_block"
      [] step = "load_block" -> "assign_block"
      [] step = "assign_block" -> "done"

\* TestCircuit::synthesize: the step that follows `step` when it returned Ok
synthesize_next(step) ==
    CASE step = "load_fixed_table" -> "load_byte_table"
      [] step = "load_byte_table" -> "load_txs"
      [] step = "load_txs" -> "load_rws"
      [] step = "load_rws" -> "load_bytecodes"
      [] step = "load_bytecodes" -> "load_block"
      [] step = "load_block" -> "assign_block"
      [] step = "assign_block" -> "done"

\* mutant of sentinel_row: the last column of the first row is not zeroed
sentinel_row_nonzero(ncols) == [i \in 1..ncols |-> IF i = ncols THEN 1 ELSE 0]

\* `Ok(F::zero())` for every column: the all-zero row at offset 0
sentinel_row(ncols) == [i \in 1..ncols |-> 0]

\* mutant of next_offset: the counter skips an offset
next_offset_skip(off) == off + 2

\* `offset += 1`
next_offset(off) == off + 1

\* mutant of table_rows: the records are walked last to first
table_rows_reversed(expansions) == Flatten(Reverse(expansions))

\* the nested loops `for record in records { for row in expansion { .. } }`:
\* the rows in the order in which the loader emits them
table_rows(expansions) == Flatten(expansions)

\* the cells of the first k columns of `row` at offset `off`
row_cells(row, off, k) == [i \in 1..k |-> [col |-> i, off |-> off, val |-> row[i]]]

\* the numbers of cells of a row (or table) of n cells that the backend may
\* accept before it rejects one: the first cell, or the last
RejectPoints(n) == {0, n - 1}

\* mutant of assign_row: the error of the rejected cell is dropped until the
\* row is through, and the columns after it are assigned all the same
assign_row_continues(t, row, off, ok) ==
    \/ /\ ok
       /\ cells' = [cells EXCEPT ![t] = @ \o row_cells(row, off, Len(row))]
    \/ /\ ~ok
       /\ \E k \in RejectPoints(Len(row)) :
             cells' = [cells EXCEPT ![t] =
                          @ \o SubSeq(row_cells(row, off, Len(row)), 1, k)
                            \o SubSeq(row_cells(row, off, Len(row)), k + 2, Len(row))]

\* region.assign_advice for the columns of one row at `off`; the backend
\* accepts all of them (ok) or rejects one and the `?` returns its error
assign_row(t, row, off, ok) ==
    \/ /\ ok
       /\ cells' = [cells EXCEPT ![t] = @ \o row_cells(row, off, Len(row))]
    \/ /\ ~ok
       /\ \E k \in RejectPoints(Len(row)) :
             cells' = [cells EXCEPT ![t] = @ \o row_cells(row, off, k)]

\* the loader returns Ok(()): synthesize goes on to `next`, and a caller of
\* the loader alone is done
loader_returns(t, next) ==
    /\ loaded' = Append(loaded, t)
    /\ started' = FALSE
    /\ offset' = 0
    /\ rows' = <<>>
    /\ expected_rw_counter' = 0
    /\ IF entry = "synthesize"
       THEN pc' = next /\ result' = result
       ELSE pc' = "done" /\ result' = "Ok"

\* the common shape of load_txs, load_bytecodes, load_block and load_keccaks
load_table(t, region_name, all_rows, next) ==
    \/ /\ ~started
       /\ regions' = Append(regions, region_name)
       /\ \E ok \in BOOLEAN :
            /\ assign_row(t, sentinel_row(Columns(t)), offset, ok)
            /\ IF ok
               THEN /\ offset' = next_offset(offset)
                    /\ started' = TRUE
                    /\ rows' = all_rows
                    /\ UNCHANGED result
               ELSE /\ result' = "Err"
                    /\ UNCHANGED <<offset, started, rows>>
       /\ UNCHANGED <<pc, loaded, expected_rw_counter>>
    \/ /\ started
       /\ rows # <<>>
       /\ \E ok \in BOOLEAN :
            /\ assign_row(t, Head(rows), offset, ok)
            /\ IF ok
               THEN /\ offset' = next_offset(offset)
                    /\ rows' = Tail(rows)
                    /\ UNCHANGED result
               ELSE /\ result' = "Err"
                    /\ UNCHANGED <<offset, rows>>
       /\ UNCHANGED <<pc, loaded, started, expected_rw_counter, regions>>
    \/ /\ started
       /\ rows = <<>>
       /\ loader_returns(t, next)
       /\ UNCHANGED <<regions, cells>>

load_txs ==
    /\ pc = "load_txs"
    /\ result = "running"
    /\ load_table("tx", "tx table",
                  table_rows([i \in 1..Len(block.txs) |->
                      tx_table_assignments(block.txs[i], block.randomness)]),
                  synthesize_next("load_txs"))
    /\ UNCHANGED <<input_vars, rowcount_vars, absorb_vars>>

load_bytecodes ==
    /\ pc = "load_bytecodes"
    /\ result = "running"
    /\ load_table("bytecode", "bytecode table",
                  table_rows([i \in 1..Len(block.bytecodes) |->
                      bytecode_table_assignments(block.bytecodes[i],
                                                 block.randomness)]),
                  synthesize_next("load_bytecodes"))
    /\ UNCHANGED <<input_vars, rowcount_vars, absorb_vars>>

load_block ==
    /\ pc = "load_block"
    /\ result = "running"
    /\ load_table("block", "block table",
                  block_table_assignments(block.context, block.randomness),
                  synthesize_next("load_block"))
    /\ UNCHANGED <<input_vars, rowcount_vars, absorb_vars>>

load_keccaks ==
    /\ pc = "load_keccaks"
    /\ result = "running"
    /\ load_table("keccak", "keccak table",
                  table_rows([i \in 1..Len(inputs) |->
                      keccak_table_assignments(inputs[i], block.randomness)]),
                  "done")
    /\ UNCHANGED <<input_vars, rowcount_vars, absorb_vars>>

\* mutant of rw_counter_ok: the assertion is compiled out
rw_counter_unchecked(rw, expected) == TRUE

\* `assert!(rw.rw_counter() == expected_rw_counter)`
rw_counter_ok(rw, expected) == rw.rw_counter = expected

\* `let mut expected_rw_counter = 1`
first_expected_rw_counter == 1

\* mutant of sort_by_key: the rows are left in the order of the map
sort_by_key_omitted(rs) == rs

\* Vec::sort_by_key(|a| a.rw_counter()): a stable sort by ascending counter
RECURSIVE sort_by_key(_)
sort_by_key(rs) ==
    IF rs = <<>> THEN <<>>
    ELSE LET n == Len(rs)
             t == sort_by_key(SubSeq(rs, 1, n - 1))
             k == Cardinality({j \in 1..Len(t) :
                                  t[j].rw_counter <= rs[n].rw_counter})
         IN  SubSeq(t, 1, k) \o <<rs[n]>> \o SubSeq(t, k + 1, Len(t))

\* the orders in which HashMap::values() may yield the groups of the RwMap
values_orders(rws) ==
    {ord \in [1..Cardinality(DOMAIN rws) -> DOMAIN rws] :
        \A i, j \in DOMAIN ord : i # j => ord[i] # ord[j]}

\* `rws.0.values().flat_map(|rws| rws.iter()).collect()`
collect_rows(rws, ord) == Flatten([i \in DOMAIN ord |-> rws[ord[i]]])

\* mutant of load_rws: the records are sorted where they lie, group by group
load_rws_sorts_in_place ==
    /\ pc = "load_rws"
    /\ result = "running"
    /\ \/ /\ ~started
          /\ regions' = Append(regions, "rw table")
          /\ \E ok \in BOOLEAN :
               /\ assign_row("rw", RwRow_default, offset, ok)
               /\ IF ok
                  THEN /\ offset' = next_offset(offset)
                       /\ started' = TRUE
                       /\ block' = [block EXCEPT !.rws =
                                      [g \in DOMAIN @ |-> sort_by_key(@[g])]]
                       /\ \E ord \in values_orders(block.rws) :
                            rows' = sort_by_key(collect_rows(block'.rws, ord))
                       /\ expected_rw_counter' = first_expected_rw_counter
                       /\ UNCHANGED result
                  ELSE /\ result' = "Err"
                       /\ UNCHANGED <<offset, started, rows, expected_rw_counter,
                                      block>>
          /\ UNCHANGED <<pc, loaded>>
       \/ /\ started
          /\ rows # <<>>
          /\ ~rw_counter_ok(Head(rows), expected_rw_counter)
          /\ result' = "panic"
          /\ UNCHANGED <<pc, loaded, loader_vars, regions, cells, block>>
       \/ /\ started
          /\ rows # <<>>
          /\ rw_counter_ok(Head(rows), expected_rw_counter)
          /\ expected_rw_counter' = expected_rw_counter + 1
          /\ \E ok \in BOOLEAN :
               /\ assign_row("rw", rw_table_assignment(Head(rows), block.randomness),
                             offset, ok)
               /\ IF ok
                  THEN /\ offset' = next_offset(offset)
                       /\ rows' = Tail(rows)
                       /\ UNCHANGED result
                  ELSE /\ result' = "Err"
                       /\ UNCHANGED <<offset, rows>>
          /\ UNCHANGED <<pc, loaded, started, regions, block>>
       \/ /\ started
          /\ rows = <<>>
          /\ loader_returns("rw", synthesize_next("load_rws"))
          /\ UNCHANGED <<regions, cells, block>>
    /\ UNCHANGED <<entry, fixed_table_tags, inputs, witness, rowcount_vars,
                    absorb_vars>>

load_rws ==
    /\ pc = "load_rws"
    /\ result = "running"
    /\ \/ /\ ~started
          /\ regions' = Append(regions, "rw table")
          /\ \E ok \in BOOLEAN :
               /\ assign_row("rw", RwRow_default, offset, ok)
               /\ IF ok
                  THEN /\ offset' = next_offset(offset)
                       /\ started' = TRUE
                       /\ \E ord \in values_orders(block.rws) :
                            rows' = sort_by_key(collect_rows(block.rws, ord))
                       /\ expected_rw_counter' = first_expected_rw_counter
                       /\ UNCHANGED result
                  ELSE /\ result' = "Err"
                       /\ UNCHANGED <<offset, started, rows, expected_rw_counter>>
          /\ UNCHANGED <<pc, loaded>>
       \/ /\ started
          /\ rows # <<>>
          /\ ~rw_counter_ok(Head(rows), expected_rw_counter)
          /\ result' = "panic"
          /\ UNCHANGED <<pc, loaded, loader_vars, regions, cells>>
       \/ /\ started
          /\ rows # <<>>
          /\ rw_counter_ok(Head(rows), expected_rw_counter)
          /\ expected_rw_counter' = expected_rw_counter + 1
          /\ \E ok \in BOOLEAN :
               /\ assign_row("rw", rw_table_assignment(Head(rows), block.randomness),
                             offset, ok)
               /\ IF ok
                  THEN /\ offset' = next_offset(offset)
                       /\ rows' = Tail(rows)
                       /\ UNCHANGED result
                  ELSE /\ result' = "Err"
                       /\ UNCHANGED <<offset, rows>>
          /\ UNCHANGED <<pc, loaded, started, regions>>
       \/ /\ started
          /\ rows = <<>>
          /\ loader_returns("rw", synthesize_next("load_rws"))
          /\ UNCHANGED <<regions, cells>>
    /\ UNCHANGED <<input_vars, rowcount_vars, absorb_vars>>

\* the cells of `all_rows` laid out from offset 0, in assignment order
table_cells(all_rows) ==
    Flatten([i \in 1..Len(all_rows) |->
                row_cells(all_rows[i], i - 1, Len(all_rows[i]))])

\* a loader that is one step of the model: all its cells are assigned and the
\* run goes on to `next`, or the backend rejects one and the run ends
load_whole(t, region_name, cs, next) ==
    /\ regions' = Append(regions, region_name)
    /\ \/ /\ cells' = [cells EXCEPT ![t] = @ \o cs]
          /\ loaded' = Append(loaded, t)
          /\ pc' = next
          /\ UNCHANGED result
       \/ /\ \E k \in RejectPoints(Len(cs)) :
                cells' = [cells EXCEPT ![t] = @ \o SubSeq(cs, 1, k)]
          /\ result' = "Err"
          /\ UNCHANGED <<pc, loaded>>

load_fixed_table ==
    /\ pc = "load_fixed_table"
    /\ result = "running"
    /\ load_whole("fixed", "fixed table",
                  table_cells(<<sentinel_row(FixedColumns)>>
                      \o Flatten([i \in 1..Len(fixed_table_tags) |->
                                     fixed_tag_build(fixed_table_tags[i])])),
                  synthesize_next("load_fixed_table"))
    /\ UNCHANGED <<input_vars, loader_vars, rowcount_vars, absorb_vars>>

load_byte_table ==
    /\ pc = "load_byte_table"
    /\ result = "running"
    /\ load_whole("byte", "byte table",
                  [i \in 1..ByteTableRows |->
                      [col |-> 1, off |-> i - 1, val |-> F_from(i - 1)]],
                  synthesize_next("load_byte_table"))
    /\ UNCHANGED <<input_vars, loader_vars, rowcount_vars, absorb_vars>>

\* EvmCircuit::assign_block_exact: the execution state machine assigns its
\* region and returns Ok or the backend's error
assign_block_exact ==
    /\ pc = "assign_block"
    /\ result = "running"
    /\ regions' = Append(regions, "Execution step")
    /\ pc' = synthesize_next("assign_block")
    /\ \/ result' = "Ok" /\ loaded' = Append(loaded, "execution")
       \/ result' = "Err" /\ UNCHANGED loaded
    /\ UNCHANGED <<input_vars, loader_vars, cells, rowcount_vars, absorb_vars>>

----------------------------------------------------------------------------
(* The inputs the caller may hand over *)

Challenges == {0, 1, 3}
CallDatas == {<<>>, <<1, 2>>}
BytecodeSamples == {[hash |-> <<7>>, bytes |-> <<>>],
                    [hash |-> <<1, 2>>, bytes |-> <<96, 1, 2>>]}
ContextSamples == {[coinbase |-> 5, timestamp |-> 300, base_fee |-> <<1, 2>>]}
KeccakInputSamples == {<<>>, <<0>>, <<1, 255>>, <<255, 1>>, <<97, 98, 99>>}
Groups == {"Stack", "Memory"}

Transaction(i, call_data, steps) ==
    [id |-> i, call_data |-> call_data, steps |-> steps]

TxLists ==
    {[i \in DOMAIN cd |-> Transaction(i, cd[i], <<>>)] :
        cd \in SeqsUpTo(CallDatas, MaxTxs)}

Rw(counter, i) == [rw_counter |-> counter, is_write |-> i % 2 = 1, value |-> 10 + i]

\* the RwMap holding the records with counters cs, the first k of them in
\* group "Stack" and the others in group "Memory"
RwMap(cs, k) ==
    [g \in Groups |->
        IF g = "Stack"
        THEN [i \in 1..k |-> Rw(cs[i], i)]
        ELSE [i \in 1..(Len(cs) - k) |-> Rw(cs[k + i], k + i)]]

RwMaps ==
    UNION {{RwMap(cs, k) : k \in 0..Len(cs)} : cs \in SeqsUpTo(0..MaxRws, MaxRws)}

BytecodeLists == SeqsUpTo(BytecodeSamples, MaxBytecodes)

KeccakInputLists == SeqsUpTo(KeccakInputSamples, MaxKeccakInputs)

EmptyRwMap == RwMap(<<>>, 0)

Block(txs, rws, bytecodes, context, randomness) ==
    [txs |-> txs, rws |-> rws, bytecodes |-> bytecodes, context |-> context,
     randomness |-> randomness]

DefaultContext == CHOOSE c \in ContextSamples : TRUE

\* the blocks of the runs of the whole synthesis
SynthesizeBlocks ==
    {Block(txs, rws, bytecodes, DefaultContext, 3) :
        txs \in {<<>>, <<Transaction(1, <<1, 2>>, <<>>), Transaction(2, <<>>, <<>>)>>},
        rws \in {EmptyRwMap, RwMap(<<3, 1, 2>>, 1), RwMap(<<1, 3>>, 1)},
        bytecodes \in {<<>>, <<[hash |-> <<1, 2>>, bytes |-> <<96, 1, 2>>]>>}}

\* the state before any loader ran
FreshLayouter ==
    /\ result = "running"
    /\ started = FALSE
    /\ offset = 0
    /\ rows = <<>>
    /\ expected_rw_counter = 0
    /\ regions = <<>>
    /\ cells = [t \in Tables |-> <<>>]
    /\ loaded = <<>>
    /\ num_rows = 0
    /\ active = <<>>
    /\ next_input_b9 = <<>>
    /\ out_state = <<>>

Fresh ==
    /\ FreshLayouter
    /\ witness = TRUE
    /\ state = <<>>
    /\ next_input = <<>>

Init ==
    /\ Fresh
    /\ \/ /\ entry = "synthesize"
          /\ pc = "load_fixed_table"
          /\ block \in SynthesizeBlocks
          /\ fixed_table_tags \in {<<>>, <<"Zero", "Range5">>}
          /\ inputs = <<>>
       \/ /\ entry = "load_txs"
          /\ pc = "load_txs"
          /\ \E txs \in TxLists, r \in Challenges :
                block = Block(txs, EmptyRwMap, <<>>, DefaultContext, r)
          /\ fixed_table_tags = <<>>
          /\ inputs = <<>>
       \/ /\ entry = "load_rws"
          /\ pc = "load_rws"
          /\ \E rws \in RwMaps :
                block = Block(<<>>, rws, <<>>, DefaultContext, 3)
          /\ fixed_table_tags = <<>>
          /\ inputs = <<>>
       \/ /\ entry = "load_bytecodes"
          /\ pc = "load_bytecodes"
          /\ \E bs \in BytecodeLists, r \in Challenges :
                block = Block(<<>>, EmptyRwMap, bs, DefaultContext, r)
          /\ fixed_table_tags = <<>>
          /\ inputs = <<>>
       \/ /\ entry = "load_block"
          /\ pc = "load_block"
          /\ \E c \in ContextSamples, r \in Challenges :
                block = Block(<<>>, EmptyRwMap, <<>>, c, r)
          /\ fixed_table_tags = <<>>
          /\ inputs = <<>>
       \/ /\ entry = "load_keccaks"
          /\ pc = "load_keccaks"
          /\ \E r \in Challenges :
                block = Block(<<>>, EmptyRwMap, <<>>, DefaultContext, r)
          /\ fixed_table_tags = <<>>
          /\ inputs \in KeccakInputLists

Next ==
    \/ load_fixed_table
    \/ load_byte_table
    \/ load_txs
    \/ load_rws
    \/ load_bytecodes
    \/ load_block
    \/ assign_block_exact
    \/ load_keccaks

Spec == Init /\ [][Next]_vars

----------------------------------------------------------------------------
(* What has been assigned in a table *)

\* the log entries of table t that assign cell (c, o)
Assignments(t, c, o) ==
    {i \in DOMAIN cells[t] : cells[t][i].col = c /\ cells[t][i].off = o}

\* the offsets of table t that hold an assigned cell
Offsets(t) == {cells[t][i].off : i \in DOMAIN cells[t]}

\* the row of table t at offset o, every cell of which is assigned
RowAt(t, o) ==
    [c \in 1..Columns(t) |-> cells[t][CHOOSE i \in Assignments(t, c, o) : TRUE].val]

Loaded(t) == \E i \in DOMAIN loaded : loaded[i] = t

\* the records of the RwMap and their counters
RwRecords == UNION {{block.rws[g][i] : i \in DOMAIN block.rws[g]} : g \in DOMAIN block.rws}
NumRws == SumSeq([i \in 1..Cardinality(Groups) |->
             Len(block.rws[(CHOOSE ord \in values_orders(block.rws) : TRUE)[i]])])
RecordsWithCounter(k) ==
    SumSeq([i \in 1..Cardinality(Groups) |->
        LET g == (CHOOSE ord \in values_orders(block.rws) : TRUE)[i]
        IN  Cardinality({j \in DOMAIN block.rws[g] : block.rws[g][j].rw_counter = k})])

\* the multiset of rw counters is exactly {1, ..., N}
CountersExact == \A k \in 1..NumRws : RecordsWithCounter(k) = 1

----------------------------------------------------------------------------
(* C1: at every moment of load_rws, the rw row assigned at an offset k >= 1
   carries rw_counter k (its first column is F::from(k)); and a completed rw
   table has rows at exactly the offsets 0..N for its N records, whatever the
   order and grouping in which the records were supplied. *)
C1_RwCounterEqualsOffset ==
    /\ \A i \in DOMAIN cells["rw"] :
          (cells["rw"][i].off >= 1 /\ cells["rw"][i].col = 1)
              => cells["rw"][i].val = F_from(cells["rw"][i].off)
    /\ Loaded("rw") =>
          /\ Offsets("rw") = 0..NumRws
          /\ \A k \in 1..NumRws :
                \E rw \in RwRecords :
                    /\ rw.rw_counter = k
                    /\ RowAt("rw", k) = rw_table_assignment(rw, block.randomness)

\* records supplied in the order 3,1,2, split over both groups, and loaded
C1_Witness ==
    /\ entry = "load_rws"
    /\ block.rws = RwMap(<<3, 1, 2>>, 1)
    /\ result = "Ok"
    /\ Loaded("rw")

(* C2: load_rws returns Ok only if the multiset of rw counters is exactly
   {1..N}, and its ordering assertion fails only if it is not: a gap, a
   repeat, a 0 or a smallest counter above 1 never reach the end of the loop,
   and counters {1..N} (N = 0 included) never trip the assertion. *)
C2_AbortIffNotExact ==
    /\ Loaded("rw") => CountersExact
    /\ (pc = "load_rws" /\ started /\ rows = <<>>) => CountersExact
    /\ result = "panic" => ~CountersExact
    /\ (pc = "load_rws" /\ started /\ result = "running" /\ ~CountersExact)
          => rows # <<>>

\* the gap {1,3}: the row of counter 1 was assigned, then the assertion failed
C2_Witness ==
    /\ entry = "load_rws"
    /\ block.rws = RwMap(<<1, 3>>, 1)
    /\ result = "panic"
    /\ Offsets("rw") = {0, 1}

(* C3: in each of the five witness tables the first cells the loader assigns
   are those of offset 0, in column order and all with value zero, whatever
   the records are; a loader that has moved past offset 0 has assigned every
   column of it; and no later assignment touches offset 0. *)
C3_SentinelRow ==
    \A t \in WitnessTables :
        /\ \A i \in DOMAIN cells[t] :
              IF i <= Columns(t)
              THEN cells[t][i] = [col |-> i, off |-> 0, val |-> 0]
              ELSE cells[t][i].off # 0
        /\ (Loaded(t) \/ \E o \in Offsets(t) : o # 0) =>
              \A c \in 1..Columns(t) : Cardinality(Assignments(t, c, 0)) = 1

\* a whole synthesis in which every table had records to load
C3_Witness ==
    /\ entry = "synthesize"
    /\ result = "Ok"
    /\ block.txs # <<>>
    /\ block.rws # EmptyRwMap
    /\ block.bytecodes # <<>>
    /\ \A t \in {"tx", "rw", "bytecode", "block"} : Loaded(t) /\ Offsets(t) # {0}

\* the k-th row of the concatenation of the expansions, found record by record
RECURSIVE RowOfRecords(_, _)
RowOfRecords(expansions, k) ==
    IF k <= Len(Head(expansions)) THEN Head(expansions)[k]
    ELSE RowOfRecords(Tail(expansions), k - Len(Head(expansions)))

\* the per-record expansions of the records handed to the loader of table t
Expansions(t) ==
    CASE t = "tx" -> [i \in 1..Len(block.txs) |->
                         tx_table_assignments(block.txs[i], block.randomness)]
      [] t = "bytecode" -> [i \in 1..Len(block.bytecodes) |->
                         bytecode_table_assignments(block.bytecodes[i], block.randomness)]
      [] t = "block" -> <<block_table_assignments(block.context, block.randomness)>>
      [] t = "keccak" -> [i \in 1..Len(inputs) |->
                         keccak_table_assignments(inputs[i], block.randomness)]

(* C4: a completed tx, bytecode, block or keccak table holds, at offsets
   1, 2, ..., exactly the rows of the records' expansions, record after
   record in the order the caller supplied and row after row within a record:
   1 + (sum of the per-record row counts) rows in all; a completed rw table
   holds 1 + N rows and a keccak table 1 + (number of inputs). *)
C4_RowsAreConcatenation ==
    /\ \A t \in {"tx", "bytecode", "block", "keccak"} :
          Loaded(t) =>
              LET exps == Expansions(t)
                  n == SumSeq([i \in 1..Len(exps) |-> Len(exps[i])])
              IN  /\ Offsets(t) = 0..n
                  /\ Len(cells[t]) = Columns(t) * (1 + n)
                  /\ \A k \in 1..n : RowAt(t, k) = RowOfRecords(exps, k)
    /\ Loaded("rw") => Cardinality(Offsets("rw")) = 1 + NumRws
    /\ Loaded("keccak") => Cardinality(Offsets("keccak")) = 1 + Len(inputs)

\* two transactions with row counts 3 and 1, loaded
C4_Witness ==
    /\ entry = "load_txs"
    /\ Len(block.txs) = 2
    /\ block.txs[1].call_data = <<1, 2>>
    /\ block.txs[2].call_data = <<>>
    /\ loaded = <<"tx">>
    /\ Offsets("tx") = 0..4

\* the table whose loader is at step p
TableOf(p) ==
    CASE p = "load_txs" -> "tx"
      [] p = "load_rws" -> "rw"
      [] p = "load_bytecodes" -> "bytecode"
      [] p = "load_block" -> "block"
      [] p = "load_keccaks" -> "keccak"

LoaderSteps == {"load_txs", "load_rws", "load_bytecodes", "load_block", "load_keccaks"}

(* C10: no (column, offset) cell of a table is ever assigned twice; while a
   loader runs, its offset counter equals the number of rows it has emitted,
   which lie at offsets 0..offset-1 with every column assigned (a rejected
   row is the only partial one, at `offset`); and a completed table has
   exactly one value in every column at every offset from 0 to its last row. *)
C10_SequentialOffsets ==
    /\ \A t \in Tables :
          Cardinality({<<cells[t][i].col, cells[t][i].off>> : i \in DOMAIN cells[t]})
              = Len(cells[t])
    /\ \A t \in Tables :
          Loaded(t) =>
              \E last \in 0..Len(cells[t]) :
                  /\ Offsets(t) = 0..last
                  /\ Len(cells[t]) = Columns(t) * (last + 1)
                  /\ \A i \in DOMAIN cells[t] : cells[t][i].col \in 1..Columns(t)
    /\ pc \in LoaderSteps =>
          LET t == TableOf(pc)
          IN  /\ ~started => offset = 0
              /\ \A o \in 0..(offset - 1) : \A c \in 1..Columns(t) :
                    Cardinality(Assignments(t, c, o)) = 1
              /\ Offsets(t) \subseteq 0..offset
              /\ result = "running" => offset \notin Offsets(t)

\* the block table, loaded: the all-zero row and three field rows
C10_Witness ==
    /\ entry = "load_block"
    /\ loaded = <<"block">>
    /\ Offsets("block") = 0..3
    /\ Len(cells["block"]) = 4 * BlockColumns

\* the regions of a synthesis and the tables of its loaders, in program order
SynthesisRegions ==
    <<"fixed table", "byte table", "tx table", "rw table", "bytecode table",
      "block table", "Execution step">>
SynthesisTables == <<"fixed", "byte", "tx", "rw", "bytecode", "block">>

\* the number of cells of the completed table t
CellsOf(t) ==
    CASE t = "fixed" ->
            FixedColumns * (1 + SumSeq([i \in 1..Len(fixed_table_tags) |->
                                          Len(fixed_tag_build(fixed_table_tags[i]))]))
      [] t = "byte" -> ByteTableRows
      [] t = "rw" -> RwColumns * (1 + NumRws)
      [] OTHER -> Columns(t) * (1 + SumSeq([i \in 1..Len(Expansions(t)) |->
                                              Len(Expansions(t)[i])]))

(* C8: in a run of synthesize the regions are opened in the order fixed,
   byte, tx, rw, bytecode, block, execution; a table has no cell before its
   region is opened; when a later region is open, every earlier loader has
   returned Ok and its table holds all of its cells and no more; and the
   execution region is opened only after all six loaders returned Ok. *)
C8_SynthesisOrder ==
    entry = "synthesize" =>
        /\ Len(regions) <= Len(SynthesisRegions)
        /\ regions = SubSeq(SynthesisRegions, 1, Len(regions))
        /\ Len(loaded) <= Len(regions)
        /\ \A k \in 1..Len(SynthesisTables) :
              LET t == SynthesisTables[k]
              IN  /\ cells[t] # <<>> => Len(regions) >= k
                  /\ Len(regions) > k =>
                        /\ Len(loaded) >= k
                        /\ loaded[k] = t
                        /\ Len(cells[t]) = CellsOf(t)
        /\ (\E i \in DOMAIN regions : regions[i] = "Execution step") =>
              SubSeq(loaded, 1, Len(SynthesisTables)) = SynthesisTables

\* a synthesis that ran to the end of the execution assignment
C8_Witness ==
    /\ entry = "synthesize"
    /\ pc = "done"
    /\ result = "Ok"
    /\ regions = SynthesisRegions
    /\ block.txs # <<>>

\* the row the keccak table holds for `input`, its last field being the RLC
\* of the byte sequence `digest_bytes`
KeccakRow(input, digest_bytes) ==
    <<1, rlc(Reverse(input), block.randomness), F_from(Len(input)),
      rlc(digest_bytes, block.randomness)>>

(* C5 as amended: keccak_table_assignments returns exactly one row per
   input (the empty one included): the flag 1, the RLC of the input bytes in
   reversed order, the input length, and the RLC of the digest's 32 bytes in
   reversed order, that is of the little-endian bytes of the word whose
   big-endian bytes are the digest. *)
C5_KeccakRow ==
    Loaded("keccak") =>
        /\ Offsets("keccak") = 0..Len(inputs)
        /\ \A k \in 1..Len(inputs) :
              /\ Len(keccak_table_assignments(inputs[k], block.randomness)) = 1
              /\ RowAt("keccak", k) =
                    KeccakRow(inputs[k], Reverse(keccak_digest(inputs[k])))

(* C5 as stated: the last field is the RLC of the 32-byte big-endian digest,
   digest[0] + digest[1]*r + ... *)
C5_Original ==
    Loaded("keccak") =>
        /\ Offsets("keccak") = 0..Len(inputs)
        /\ \A k \in 1..Len(inputs) :
              /\ Len(keccak_table_assignments(inputs[k], block.randomness)) = 1
              /\ RowAt("keccak", k) = KeccakRow(inputs[k], keccak_digest(inputs[k]))

\* the empty input and a 3-byte input, loaded under challenge 3
C5_Witness ==
    /\ entry = "load_keccaks"
    /\ inputs = << <<>>, <<97, 98, 99>> >>
    /\ block.randomness = 3
    /\ loaded = <<"keccak">>
    /\ RowAt("keccak", 1)[3] = 0
    /\ RowAt("keccak", 2)[3] = 3

----------------------------------------------------------------------------
(* EvmCircuit::get_num_rows_required and get_active_rows *)

ExecutionStates == {"BeginTx", "STOP"}

\* ExecutionConfig::get_step_height: the rows a step of this state occupies
get_step_height(execution_state) ==
    CASE execution_state = "BeginTx" -> 3
      [] execution_state = "STOP" -> 1

\* `let mut num_rows = 1`
initial_num_rows == 1

\* mutant of add_step_height: every step is counted as one row
add_step_height_one(n, step) == n + 1

\* `num_rows += self.execution.get_step_height(step.execution_state)`
add_step_height(n, step) == n + get_step_height(step.execution_state)

\* mutant of range_collect: the range starts at 1 and includes its end
range_collect_from_one(n) == [i \in 1..n |-> i]

\* `(0..max_offset).collect()`
range_collect(n) == [i \in 1..n |-> i - 1]

\* the steps in the order of `for transaction in &block.txs { for step in .. }`
block_steps(txs) == Flatten([i \in 1..Len(txs) |-> txs[i].steps])

get_num_rows_required ==
    /\ pc = "get_num_rows_required"
    /\ \/ /\ ~started
          /\ num_rows' = initial_num_rows
          /\ rows' = block_steps(block.txs)
          /\ started' = TRUE
          /\ UNCHANGED <<pc, result>>
       \/ /\ started
          /\ rows # <<>>
          /\ num_rows' = add_step_height(num_rows, Head(rows))
          /\ rows' = Tail(rows)
          /\ UNCHANGED <<pc, result, started>>
       \/ /\ started
          /\ rows = <<>>
          /\ IF entry = "get_active_rows"
             THEN pc' = "get_active_rows" /\ result' = result
             ELSE pc' = "done" /\ result' = "Ok"
          /\ UNCHANGED <<num_rows, rows, started>>
    /\ UNCHANGED <<input_vars, offset, expected_rw_counter, regions, cells,
                   loaded, active, absorb_vars>>

get_active_rows ==
    /\ pc = "get_active_rows"
    /\ active' = [gates_row_ids |-> range_collect(num_rows),
                  lookup_row_ids |-> range_collect(num_rows)]
    /\ pc' = "done"
    /\ result' = "Ok"
    /\ UNCHANGED <<input_vars, loader_vars, regions, cells, loaded, num_rows,
                   absorb_vars>>

StepLists ==
    {[i \in DOMAIN es |-> [execution_state |-> es[i]]] :
        es \in SeqsUpTo(ExecutionStates, MaxSteps)}

RowsTxLists ==
    {[i \in DOMAIN ss |-> Transaction(i, <<>>, ss[i])] :
        ss \in SeqsUpTo(StepLists, MaxTxs)}

InitRows ==
    /\ Fresh
    /\ entry \in {"get_num_rows_required", "get_active_rows"}
    /\ pc = "get_num_rows_required"
    /\ \E txs \in RowsTxLists :
          block = Block(txs, EmptyRwMap, <<>>, DefaultContext, 3)
    /\ fixed_table_tags = <<>>
    /\ inputs = <<>>

NextRows == get_num_rows_required \/ get_active_rows

SpecRows == InitRows /\ [][NextRows]_vars

\* the sum of the declared heights of all steps of all transactions
SumOfStepHeights ==
    SumSeq([i \in 1..Len(block.txs) |->
        SumSeq([j \in 1..Len(block.txs[i].steps) |->
            get_step_height(block.txs[i].steps[j].execution_state)])])

RowsReturned == pc \in {"get_active_rows", "done"}

(* C9 as amended: get_num_rows_required returns one more than the sum, over
   all transactions and all their steps, of the step's declared row height:
   the rows the steps occupy plus one unused `next` row. *)
C9_NumRowsIsSumPlusOne == RowsReturned => num_rows = 1 + SumOfStepHeights

(* C9 as stated: get_num_rows_required returns the sum, over all transactions
   and all their steps, of the step's declared row height. *)
C9_Original == RowsReturned => num_rows = SumOfStepHeights

\* two transactions with steps of heights 3, 1 and 3: 8 rows are returned
C9_Witness ==
    /\ entry = "get_num_rows_required"
    /\ pc = "done"
    /\ Len(block.txs) = 2
    /\ Len(block.txs[1].steps) = 2
    /\ SumOfStepHeights = 7
    /\ num_rows = 8

----------------------------------------------------------------------------
(* apply_absorb of the Keccak permutation *)

\* the lanes of a block of input (the rate of Keccak-256 in 64-bit words)
NEXT_INPUTS_LANES == 17

\* the scaling constant of the absorbed input
A4 == 2

\* Option<F>: None, or Some(v)
None == <<>>
Some(v) == <<v>>
unwrap(opt) == opt[1]

\* f_to_biguint: the integer a field element stands for
f_to_biguint(x) == x

\* biguint_to_f
biguint_to_f(n) == n % FieldModulus

RECURSIVE Pow2(_)
Pow2(n) == IF n = 0 THEN 1 ELSE 2 * Pow2(n - 1)

\* BigUint::to_u64_digits: the digits of n in base 2^WordBits, least
\* significant first; zero has no digit
RECURSIVE to_u64_digits(_)
to_u64_digits(n) ==
    IF n = 0 THEN <<>>
    ELSE <<n % Pow2(WordBits)>> \o to_u64_digits(n \div Pow2(WordBits))

\* convert_b2_to_b9: the binary digits of x, read in base 9
RECURSIVE convert_b2_to_b9(_)
convert_b2_to_b9(x) ==
    IF x = 0 THEN 0 ELSE (x % 2) + 9 * convert_b2_to_b9(x \div 2)

\* `.first().unwrap()` succeeds
first_digit_present(digits) == digits # <<>>

\* the value closure of a present input (lines 33-38), its first digit present
next_input_value(input) ==
    biguint_to_f(convert_b2_to_b9(
        IF to_u64_digits(f_to_biguint(input)) = <<>> THEN 0
        ELSE Head(to_u64_digits(f_to_biguint(input)))))

\* AddConfig::add_advice_mul_const: a + b * c, unknown when an operand is
add_advice_mul_const(a, b, c) ==
    IF a = None \/ b = None THEN None
    ELSE Some(F_add(unwrap(a), F_mul(unwrap(b), F_from(c))))

\* what apply_absorb leaves alone
absorb_frame ==
    UNCHANGED <<input_vars, loader_vars, regions, cells, loaded, rowcount_vars,
                state, next_input>>

\* the region "next input words": one assign_advice per next-input lane
assign_next_input ==
    /\ pc = "assign_next_input"
    /\ result = "running"
    /\ Len(next_input_b9) < Len(next_input)
    /\ LET input == next_input[Len(next_input_b9) + 1]
       IN  \/ /\ witness
              /\ input = None
              /\ result' = "Synthesis"
              /\ UNCHANGED next_input_b9
           \/ /\ witness
              /\ input # None
              /\ ~first_digit_present(to_u64_digits(f_to_biguint(unwrap(input))))
              /\ result' = "panic"
              /\ UNCHANGED next_input_b9
           \/ /\ witness
              /\ input # None
              /\ first_digit_present(to_u64_digits(f_to_biguint(unwrap(input))))
              /\ next_input_b9' = Append(next_input_b9,
                                         Some(next_input_value(unwrap(input))))
              /\ UNCHANGED result
           \/ /\ ~witness
              /\ next_input_b9' = Append(next_input_b9, None)
              /\ UNCHANGED result
           \/ /\ result' = "Err"
              /\ UNCHANGED next_input_b9
    /\ UNCHANGED <<pc, out_state>>
    /\ absorb_frame

\* the region is done: `Ok(next_input_b9)`
next_input_assigned ==
    /\ pc = "assign_next_input"
    /\ result = "running"
    /\ Len(next_input_b9) = Len(next_input)
    /\ pc' = "add_advice_mul_const"
    /\ UNCHANGED <<result, next_input_b9, out_state>>
    /\ absorb_frame

\* `for (i, input) in next_input_b9.iter().enumerate()`: one lane is pushed
push_out_lane ==
    /\ pc = "add_advice_mul_const"
    /\ result = "running"
    /\ Len(out_state) < Len(next_input_b9)
    /\ LET i == Len(out_state) + 1
       IN  \/ /\ out_state' = Append(out_state,
                     add_advice_mul_const(state[i], next_input_b9[i], A4))
              /\ UNCHANGED result
           \/ /\ result' = "Err"
              /\ UNCHANGED out_state
    /\ UNCHANGED <<pc, next_input_b9>>
    /\ absorb_frame

\* `Ok(out_state.try_into().unwrap())`: the Vec becomes an array of 25 lanes
\* when it holds 25, and the unwrap panics otherwise
return_out_state ==
    /\ pc = "add_advice_mul_const"
    /\ result = "running"
    /\ Len(out_state) = Len(next_input_b9)
    /\ pc' = "done"
    /\ result' = IF Len(out_state) = Lanes THEN "Ok" ELSE "panic"
    /\ UNCHANGED <<next_input_b9, out_state>>
    /\ absorb_frame

apply_absorb ==
    \/ assign_next_input
    \/ next_input_assigned
    \/ push_out_lane
    \/ return_out_state

\* a present input is a field value, an absent one is None
NextInputSamples == {None, Some(0), Some(1), Some(6), Some(FieldModulus - 1)}

InitAbsorb ==
    /\ FreshLayouter
    /\ entry = "apply_absorb"
    /\ pc = "assign_next_input"
    /\ block = Block(<<>>, EmptyRwMap, <<>>, DefaultContext, 3)
    /\ fixed_table_tags = <<>>
    /\ inputs = <<>>
    /\ witness \in BOOLEAN
    /\ \E s \in {0, 1} :
          state = [i \in 1..Lanes |-> IF witness THEN Some(s * i) ELSE None]
    /\ \E a, b \in NextInputSamples, c \in {None, Some(0), Some(1)} :
          next_input = [i \in 1..NEXT_INPUTS_LANES |->
                           IF i = 1 THEN a ELSE IF i = 2 THEN b ELSE c]

NextAbsorb == apply_absorb

SpecAbsorb == InitAbsorb /\ [][NextAbsorb]_vars

\* to_alt_base(low_64_bits(input)) as a field element
to_alt_base_of_low_bits(input) ==
    biguint_to_f(convert_b2_to_b9(input % Pow2(WordBits)))

(* C6: with every next input present and its value known, whatever the
   values (0 included), apply_absorb does not panic, and the lane it pushes
   for lane i is previous_lane[i] + to_alt_base(low 64 bits of input[i]) * A4. *)
C6_AbsorbLaneUpdate ==
    witness =>
        /\ (\A i \in DOMAIN next_input :
               i <= Len(next_input_b9) + 1 => next_input[i] # None)
              => result # "panic" \/ pc = "done"
        /\ \A i \in 1..Len(out_state) :
              next_input[i] # None =>
                  out_state[i] = Some(F_add(unwrap(state[i]),
                      F_mul(to_alt_base_of_low_bits(unwrap(next_input[i])),
                            F_from(A4))))

(* C7: apply_absorb returns 25 lanes, and every lane without a next input
   (an absent input, or an index at or beyond the number of next-input lanes)
   is the lane of the previous state: an absent input is no error, and once
   the loops are through the call returns Ok. *)
C7_PassThrough ==
    /\ result # "Synthesis"
    /\ (pc = "done" /\ result # "Err") =>
          /\ result = "Ok"
          /\ Len(out_state) = Lanes
          /\ \A i \in 1..Lanes :
                (i > Len(next_input) \/ next_input[i] = None)
                    => out_state[i] = state[i]

----------------------------------------------------------------------------
(* A rejected cell assignment *)

\* the table of the loader at step p, the two fixed loaders included
LoaderTable(p) ==
    CASE p = "load_fixed_table" -> "fixed"
      [] p = "load_byte_table" -> "byte"
      [] OTHER -> TableOf(p)

\* the name of the region of table t
RegionOf(t) ==
    CASE t = "fixed" -> "fixed table"
      [] t = "byte" -> "byte table"
      [] t = "tx" -> "tx table"
      [] t = "rw" -> "rw table"
      [] t = "bytecode" -> "bytecode table"
      [] t = "block" -> "block table"
      [] t = "keccak" -> "keccak table"

\* a loader got the backend's error and returned it
LoaderFailed == result = "Err" /\ pc # "done"

\* the cells of table t are the first cells of its layout, row after row and
\* column after column within a row, with none left out in between
GapFreePrefix(t) ==
    \A i \in DOMAIN cells[t] :
        /\ cells[t][i].off = (i - 1) \div Columns(t)
        /\ cells[t][i].col = ((i - 1) % Columns(t)) + 1

\* the tables the run was to load
TablesOfRun ==
    IF entry = "synthesize"
    THEN {SynthesisTables[k] : k \in DOMAIN SynthesisTables}
    ELSE {TableOf(entry)}

(* C11: when the backend rejects a cell, the loader stops there and returns
   the error: the cells of its table are those assigned before the rejected
   one and no other, the table is not complete, no later region is opened, no
   later table receives a cell, and the execution assignment does not run
   (a state with the error has no successor); and a run that ends Ok has
   loaded every table it was to load, each with all of its cells. *)
C11_ErrorStopsTheRun ==
    /\ [](LoaderFailed =>
            LET t == LoaderTable(pc)
            IN  /\ ~Loaded(t)
                /\ Len(cells[t]) < CellsOf(t)
                /\ GapFreePrefix(t)
                /\ regions[Len(regions)] = RegionOf(t)
                /\ ~Loaded("execution")
                /\ \A u \in Tables \ {t} :
                      cells[u] # <<>> => /\ Loaded(u)
                                         /\ Len(cells[u]) = CellsOf(u))
    /\ [](result = "Ok" =>
            /\ pc = "done"
            /\ \A t \in TablesOfRun :
                  /\ Loaded(t)
                  /\ Len(cells[t]) = CellsOf(t)
                  /\ GapFreePrefix(t)
            /\ \A t \in Tables \ TablesOfRun : cells[t] = <<>>)
    /\ [][result = "Err" => UNCHANGED vars]_vars

\* a synthesis in which the backend rejected a cell of the second bytecode
\* row: the four tables before are complete, the block table is empty
C11_Witness ==
    /\ entry = "synthesize"
    /\ LoaderFailed
    /\ pc = "load_bytecodes"
    /\ Len(cells["bytecode"]) = 2 * BytecodeColumns - 1
    /\ Loaded("rw")
    /\ cells["block"] = <<>>

----------------------------------------------------------------------------
(* The caller's records *)

\* the sorted sequences load_rws may derive from the map, one for each order
\* in which the map yields its groups
SortedCopies ==
    {sort_by_key(collect_rows(block.rws, ord)) : ord \in values_orders(block.rws)}

(* C12: no step of load_rws, whether it goes on, returns Ok, fails on a
   rejected cell or aborts on the ordering assertion, changes the RwMap: its
   groups, the records of each group and their order within the group stay
   what they were; what is sorted is the loader's own sequence `rows`, which
   at any moment holds the records not yet assigned, in the order of a sort
   by counter of the records collected from the map. *)
C12_RwMapUntouched ==
    /\ [][pc = "load_rws" => block' = block]_vars
    /\ []((pc = "load_rws" /\ started) =>
            \E sorted \in SortedCopies :
                /\ offset <= Len(sorted) + 1
                /\ rows = SubSeq(sorted, offset, Len(sorted)))

\* a group whose records lie in the order 3, 1, 2: the table was loaded in
\* the order 1, 2, 3 and the group still reads 3, 1, 2
C12_Witness ==
    /\ entry = "load_rws"
    /\ block.rws = RwMap(<<3, 1, 2>>, 0)
    /\ result = "Ok"
    /\ Loaded("rw")
    /\ [i \in 1..3 |-> block.rws["Memory"][i].rw_counter] = <<3, 1, 2>>
    /\ [k \in 1..3 |-> RowAt("rw", k)[1]] = <<1, 2, 3>>

----------------------------------------------------------------------------
(* The keccak input RLC as a running accumulator *)

\* acc[0] = 0, acc[i] = acc[i-1] * r + v[i]: the accumulator after the first
\* i bytes of v, scanned in their original order
RECURSIVE Accumulator(_, _, _)
Accumulator(v, r, i) ==
    IF i = 0 THEN 0
    ELSE F_add(F_mul(Accumulator(v, r, i - 1), F_from(r)), F_from(v[i]))

\* byte sequences of up to three bytes
ByteSequences == SeqsUpTo({0, 1, 2, 255}, 3)

(* C13: for every byte sequence v and the challenge r of the run,
   rlc(reverse(v), r) is the final value of the accumulator
   acc[i] = acc[i-1] * r + v[i] run over v in its original order from 0, and
   is 0 for the empty sequence; and the input RLC that load_keccaks assigns
   for an input (second column of its row) is that accumulator's value. *)
C13_ReversedRlcIsAccumulator ==
    /\ pc = "load_keccaks" =>
          \A v \in ByteSequences :
              rlc(Reverse(v), block.randomness)
                  = Accumulator(v, block.randomness, Len(v))
    /\ pc = "load_keccaks" => rlc(Reverse(<<>>), block.randomness) = 0
    /\ \A i \in DOMAIN cells["keccak"] :
          (cells["keccak"][i].col = 2 /\ cells["keccak"][i].off >= 1) =>
              cells["keccak"][i].val =
                  Accumulator(inputs[cells["keccak"][i].off], block.randomness,
                              Len(inputs[cells["keccak"][i].off]))

\* the inputs <<1, 255>> and "abc" loaded under the challenge 3: the input
\* RLCs are 1*3 + 255 and (97*3 + 98)*3 + 99 in the field
C13_Witness ==
    /\ entry = "load_keccaks"
    /\ block.randomness = 3
    /\ inputs = <<<<1, 255>>, <<97, 98, 99>>>>
    /\ Loaded("keccak")
    /\ RowAt("keccak", 1)[2] = 258 % FieldModulus
    /\ RowAt("keccak", 2)[2] = 1266 % FieldModulus
    /\ RowAt("keccak", 1)[2] # rlc(<<1, 255>>, 3)

----------------------------------------------------------------------------
(* The active rows *)

\* get_active_rows has returned its two lists
ActiveRowsReturned == entry = "get_active_rows" /\ pc = "done"

(* C14: the two lists get_active_rows returns, the gate rows and the lookup
   rows, are equal, and each is 0, 1, ..., get_num_rows_required(block) - 1
   in increasing order without a duplicate; every row an execution step
   occupies (the offsets below the sum of the step heights) is in both, and
   the lists are never empty, since the row count is the sum plus the one
   unused `next` row. *)
C14_ActiveRows ==
    ActiveRowsReturned =>
        LET gates == active.gates_row_ids
            lookups == active.lookup_row_ids
        IN  /\ gates = lookups
            /\ Len(gates) = num_rows
            /\ num_rows = initial_num_rows + SumOfStepHeights
            /\ \A i \in DOMAIN gates : gates[i] = i - 1
            /\ \A i, j \in DOMAIN gates : i < j => gates[i] < gates[j]
            /\ \A o \in 0..(SumOfStepHeights - 1) :
                  /\ \E i \in DOMAIN gates : gates[i] = o
                  /\ \E i \in DOMAIN lookups : lookups[i] = o
            /\ gates # <<>>

\* one transaction with a step of height 3 and one of height 1: both lists
\* are the five offsets 0..4
C14_Witness ==
    /\ ActiveRowsReturned
    /\ Len(block.txs) = 1
    /\ SumOfStepHeights = 4
    /\ active.gates_row_ids = <<0, 1, 2, 3, 4>>
    /\ active.lookup_row_ids = <<0, 1, 2, 3, 4>>

====
